---------------------------- MODULE Spec2Model ----------------------------
(***************************************************************************)
(* A model of the site-parser subsystem of the drafty browser extension:   *)
(* the three site parsers (ESPN, Sleeper, Yahoo), their player rows and    *)
(* their collection loops over a host page that the extension does not     *)
(* control.  The host page is an input: whatever a read of the document    *)
(* returns is drawn afresh from a bounded set at every read.               *)
(***************************************************************************)
EXTENDS Integers, Sequences, FiniteSets, TLC

(***************************************************************************)
(* Bounds of the model.                                                    *)
(***************************************************************************)
MaxCount == 2       \* largest requiredCount passed to getAvailableNames
MaxRows == 2        \* most rows one read of the player list renders
MaxElems == 2       \* most name elements the ESPN players container holds
MaxListed == 3      \* most rows the Sleeper or Yahoo selector lists
MaxTop == 3         \* on-screen top coordinates are 1..MaxTop
MaxOffset == 2      \* scroll offsets of the roster panel are 0..MaxOffset
MaxClient == 1      \* client heights of the roster panel are 1..MaxClient
MaxHeight == 3      \* content heights of the roster panel are 1..MaxHeight

Sites == {"ESPN", "Sleeper", "Yahoo"}
Names == {"A", "B"}             \* player names the page can render

(***************************************************************************)
(* Helpers on sequences.                                                   *)
(***************************************************************************)
Range(s) == {s[i] : i \in 1..Len(s)}

Includes(s, x) == \E i \in 1..Len(s) : s[i] = x

Min(a, b) == IF a <= b THEN a ELSE b

SeqsUpTo(S, n) == UNION {[1..m -> S] : m \in 0..n}

\* Array.prototype.slice(0, n)
Slice0(s, n) == SubSeq(s, 1, Min(n, Len(s)))

(***************************************************************************)
(* What one call of getPlayerRows() hands to getCurrentPlayerNames: the    *)
(* rows it returns, top to bottom, each given by the text its getName()    *)
(* yields ("" when the row has no name).  The page decides it anew at      *)
(* every read.                                                             *)
(***************************************************************************)
RowNames == Names \cup {""}
Views == SeqsUpTo(RowNames, MaxRows)

\* getCurrentPlayerNames: for (row of rows) { name = row.getName().trim();
\* if (name) push(name) }
RECURSIVE getCurrentPlayerNames(_)
getCurrentPlayerNames(rows) ==
  IF rows = <<>> THEN <<>>
  ELSE (IF Head(rows) # "" THEN <<Head(rows)>> ELSE <<>>)
         \o getCurrentPlayerNames(Tail(rows))

\* currentNames.forEach(name => { if (!playerNames.includes(name)) push })
RECURSIVE MergeNew(_, _)
MergeNew(acc, names) ==
  IF names = <<>> THEN acc
  ELSE MergeNew(IF Includes(acc, Head(names)) THEN acc
                ELSE Append(acc, Head(names)), Tail(names))

maxAttempts == 100

\* while (attempts < maxAttempts && playerNames.length < requiredCount)
LoopNoCeiling(a, names, k) == Len(names) < k
LoopCondition(a, names, k) == a < maxAttempts /\ Len(names) < k

\* What the not-scrollable branch of YahooParser.getAvailableNames returns.
YahooStaticResult(view, k) == getCurrentPlayerNames(view)

\* return playerNames.slice(0, requiredCount)
FinalNames(names, k) == Slice0(names, k)

(***************************************************************************)
(* State.                                                                  *)
(***************************************************************************)
VARIABLES
  site,           \* the parser the call runs on
  pc,             \* position of the running asynchronous call
  requiredCount,  \* argument of getAvailableNames
  playerNames,    \* the accumulator of the collection loop
  attempts,       \* the loop counter
  previousScrollTop,  \* getDraftedNames: offset recorded by the last pass
  result,         \* what the call returned (meaningful when pc = "done")
  reads,          \* history: reads of the document made by the call
  scrolls,        \* history: scroll-down gestures the call dispatched
  firstSeen,      \* history: distinct names rendered over the reads, in order
  branch,         \* history: which path the call took
  normalized,     \* history: ensureCorrectPlayerView ran in this call
  topResets,      \* history: scrollToTop calls made by this call
  lastTop,        \* history: the scroll offset the latest check read
  lastBottom,     \* history: the latest check found the bottom reached
  doc,            \* getPlayerRows: the document the call queries
  playerRows,     \* getPlayerRows: the rows it returned
  page,           \* PlayerRow: the live document tree the row lives in
  root,           \* PlayerRow.root: the path of the row's element in page
  nameBefore,     \* history: getName() when the row object was built
  adds,           \* history: addActionButton calls made on the row
  pending,        \* the MutationObserver has records to deliver
  parsers,        \* ParserManager.parsers: the registered parsers, in order
  url,            \* the URL the manager was last asked about
  matched,        \* what getParserForUrl returned
  invoked,        \* history: parsers whose getPlayerRows the manager invoked
  helper,         \* the helper of the parser that ran last
  anchors,        \* the anchors the document held when it ran
  outcome,        \* how the helper ended
  leftover,       \* what the accumulator of the previous call held at its end
  apiRequest,     \* the request the content controller built last
  rosterSection,  \* the roster panel element the document holds now
  innerColumn,    \* getDraftedNames: the element its constant refers to
  consulted,      \* history: the element the latest check read from
  atFinal,        \* history: names rendered where the loop broke, unread
  now,            \* Date.now()
  storage,        \* chrome.storage.local: what each key holds
  step,           \* where the running handler of the extension is
  token,          \* the handler's constant token
  returned,       \* what StorageService.getAuthToken() returned last
  readError,      \* history: chrome.storage.local.get threw in this call
  handler,        \* the handler of the content script that is running
  overlay,        \* elements with id drafty-loading-overlay in the document
  collections,    \* history: parser collections the run has started
  requests,       \* history: API requests the run has sent
  authPopup,      \* history: the run showed the authentication popup
  path,           \* history: the way the run ended
  authToken,      \* ApiService.authToken of the context that is running
  changes,        \* a change of auth_token awaits the onChanged listener
  currentUser,    \* PopupManager.currentUser
  screen          \* the screen the popup shows

availVars == <<requiredCount, playerNames, attempts, result, reads, scrolls,
               firstSeen, branch, normalized, topResets>>
draftOnly == <<previousScrollTop, lastTop, lastBottom, innerColumn,
              consulted, atFinal>>
rowsVars == <<doc, playerRows>>
rowVars == <<page, root, nameBefore, adds, pending>>
callerVars == <<parsers, url, matched, invoked>>
helperVars == <<helper, anchors, outcome>>
parserVars == <<site, pc, availVars, draftOnly, rowsVars, rowVars, callerVars,
                helperVars, leftover, apiRequest, rosterSection>>
storageVars == <<now, storage, step, token, returned, readError>>
clickVars == <<handler, overlay, collections, requests, authPopup, path>>
syncVars == <<authToken, changes>>
popupVars == <<currentUser, screen>>
extVars == <<storageVars, clickVars, syncVars, popupVars>>
\* What the actions of StorageService leave alone.
storageRest == <<parserVars, clickVars, syncVars, popupVars>>
nonAvail == <<draftOnly, rowsVars, rowVars, callerVars, helperVars, leftover,
                 apiRequest, rosterSection, extVars>>
vars == <<site, pc, availVars, draftOnly, rowsVars, rowVars, callerVars,
          helperVars, leftover,
                 apiRequest, rosterSection, extVars>>

\* The rest of the state when no document is under query.
NoDocument == [present |-> FALSE, elems |-> <<>>, top |-> <<>>]

\* A document holding none of the anchors the parsers look for.
NoAnchors ==
  [container |-> FALSE, track |-> FALSE, face |-> FALSE, filters |-> FALSE,
   panel |-> FALSE, tab |-> FALSE]

\* Elements of the roster panel are told apart by the order in which the
\* host page created them; NoElement stands for no reference at all.
NoElement == -1

\* The element whose scrollTop, scrollHeight and clientHeight the loop reads
\* after scrollDraftedDown() resumes: the one the constant was bound to at
\* the start of the call, not the one the document holds at that moment.
CheckedElement(cached, live) == cached

\* null, for a value that is either null or one object: the empty set, the
\* object being held as the only member of a set otherwise.
null_ == {}

\* chrome.storage.local with no key set.
EmptyStorage == [auth_token |-> null_, user_data |-> null_]

\* No request has been built.
NoRequest == [scoring_type |-> "none"]

\* A document with nothing in it.
EmptyPage == [kind |-> "body", cls |-> {}, text |-> <<>>, kids |-> <<>>]

\* History of names in first-seen order, kept apart from the code's merge.
FirstOccurrences(s) ==
  LET keep(i) == \A j \in 1..(i - 1) : s[j] # s[i]
      F[i \in 0..Len(s)] ==
        IF i = 0 THEN <<>>
        ELSE IF keep(i) THEN Append(F[i - 1], s[i]) ELSE F[i - 1]
  IN F[Len(s)]

(***************************************************************************)
(* getAvailableNames(requiredCount)                                        *)
(***************************************************************************)
\* A variant that keeps the accumulator in a field of the parser.
ReusedAccumulator(old) == old

\* const playerNames: string[] = []
NewAccumulator(old) == <<>>

AvailFrame(k, b) ==
  /\ requiredCount' = k
  /\ playerNames' = NewAccumulator(leftover)
  /\ attempts' = 0
  /\ result' = <<>>
  /\ reads' = 0
  /\ scrolls' = 0
  /\ firstSeen' = <<>>
  /\ branch' = b
  /\ normalized' = FALSE
  /\ topResets' = 0

CanCall == pc = "idle"

\* ESPN: the call starts with ensureCorrectPlayerView().
ESPN_getAvailableNames(k) ==
  /\ CanCall /\ site = "ESPN"
  /\ AvailFrame(k, "loop")
  /\ pc' = "normalize"
  /\ UNCHANGED <<nonAvail, site>>

ESPN_ensureCorrectPlayerView ==
  /\ pc = "normalize"
  /\ normalized' = TRUE
  /\ pc' = "toTop"
  /\ UNCHANGED <<nonAvail, site, requiredCount, playerNames, attempts, result, reads,
                 scrolls, firstSeen, branch, topResets>>

\* Sleeper: the call starts with scrollToTop().
Sleeper_getAvailableNames(k) ==
  /\ CanCall /\ site = "Sleeper"
  /\ AvailFrame(k, "loop")
  /\ pc' = "toTop"
  /\ UNCHANGED <<nonAvail, site>>

\* Yahoo: no table in the document.
Yahoo_getAvailableNames_NoTable(k) ==
  /\ CanCall /\ site = "Yahoo"
  /\ AvailFrame(k, "absent")
  /\ pc' = "done"
  /\ UNCHANGED <<nonAvail, site>>

\* Yahoo: the table is there and is not scrollable
\* (scrollHeight <= clientHeight): the visible names are returned at once.
Yahoo_getAvailableNames_Static(k) ==
  /\ CanCall /\ site = "Yahoo"
  /\ \E view \in Views :
       /\ result' = YahooStaticResult(view, k)
       /\ firstSeen' = FirstOccurrences(getCurrentPlayerNames(view))
  /\ requiredCount' = k
  /\ playerNames' = <<>>
  /\ attempts' = 0
  /\ reads' = 1
  /\ scrolls' = 0
  /\ branch' = "static"
  /\ normalized' = FALSE
  /\ topResets' = 0
  /\ pc' = "done"
  /\ UNCHANGED <<nonAvail, site>>

\* Yahoo: the table is scrollable.
Yahoo_getAvailableNames_Scrollable(k) ==
  /\ CanCall /\ site = "Yahoo"
  /\ AvailFrame(k, "loop")
  /\ pc' = "toTop"
  /\ UNCHANGED <<nonAvail, site>>

\* await this.scrollToTop(); await delay(300)
Avail_scrollToTop ==
  /\ pc = "toTop"
  /\ topResets' = topResets + 1
  /\ pc' = "loop"
  /\ UNCHANGED <<nonAvail, site, requiredCount, playerNames, attempts, result, reads,
                 scrolls, firstSeen, branch, normalized>>

\* One pass through the loop body up to the await of scrollDown().
Avail_readNames ==
  /\ pc = "loop"
  /\ LoopCondition(attempts, playerNames, requiredCount)
  /\ \E view \in Views :
       LET currentNames == getCurrentPlayerNames(view)
           merged == MergeNew(playerNames, currentNames)
       IN /\ playerNames' = merged
          /\ firstSeen' = FirstOccurrences(firstSeen \o currentNames)
          /\ pc' = IF Len(merged) >= requiredCount THEN "reset" ELSE "scrollDown"
  /\ reads' = reads + 1
  /\ UNCHANGED <<nonAvail, site, requiredCount, attempts, result, scrolls, branch,
                 normalized, topResets>>

\* await this.scrollDown(); await delay(200); attempts++
\* The gesture is dispatched only when the scrollbar (ESPN, Sleeper) or the
\* table with room below (Yahoo) is found.
Avail_scrollDown ==
  /\ pc = "scrollDown"
  /\ \E dispatched \in BOOLEAN :
       scrolls' = scrolls + (IF dispatched THEN 1 ELSE 0)
  /\ attempts' = attempts + 1
  /\ pc' = "loop"
  /\ UNCHANGED <<nonAvail, site, requiredCount, playerNames, result, reads, firstSeen,
                 branch, normalized, topResets>>

\* The loop condition fails.
Avail_loopExit ==
  /\ pc = "loop"
  /\ ~LoopCondition(attempts, playerNames, requiredCount)
  /\ pc' = "reset"
  /\ UNCHANGED <<nonAvail, site, availVars>>

\* await this.scrollToTop(); return playerNames.slice(0, requiredCount)
Avail_return ==
  /\ pc = "reset"
  /\ topResets' = topResets + 1
  /\ result' = FinalNames(playerNames, requiredCount)
  /\ pc' = "done"
  /\ UNCHANGED <<nonAvail, site, requiredCount, playerNames, attempts, reads, scrolls,
                 firstSeen, branch, normalized>>

\* The caller has taken the result; the next call starts from a fresh frame.
Avail_idle ==
  /\ pc = "done"
  /\ AvailFrame(0, "none")
  /\ pc' = "idle"
  /\ UNCHANGED <<nonAvail, site>>

AvailStep ==
  \/ ESPN_ensureCorrectPlayerView
  \/ Avail_scrollToTop
  \/ Avail_readNames
  \/ Avail_scrollDown
  \/ Avail_loopExit
  \/ Avail_return

\* The state before any call: no frame, no document under query.
IdleInit ==
  /\ site \in Sites
  /\ pc = "idle"
  /\ requiredCount = 0
  /\ playerNames = <<>>
  /\ attempts = 0
  /\ result = <<>>
  /\ reads = 0
  /\ scrolls = 0
  /\ firstSeen = <<>>
  /\ branch = "none"
  /\ normalized = FALSE
  /\ topResets = 0
  /\ previousScrollTop = -1
  /\ lastTop = -1
  /\ lastBottom = FALSE
  /\ rosterSection = 0
  /\ innerColumn = NoElement
  /\ consulted = NoElement
  /\ atFinal = <<>>
  /\ now = 0
  /\ storage = EmptyStorage
  /\ step = "none"
  /\ token = null_
  /\ returned = null_
  /\ readError = FALSE
  /\ handler = "none"
  /\ overlay = 0
  /\ collections = 0
  /\ requests = 0
  /\ authPopup = FALSE
  /\ path = "none"
  /\ authToken = null_
  /\ changes = FALSE
  /\ currentUser = null_
  /\ screen = "none"
  /\ doc = NoDocument
  /\ playerRows = <<>>
  /\ page = EmptyPage
  /\ root = <<>>
  /\ nameBefore = <<>>
  /\ adds = 0
  /\ pending = FALSE
  /\ parsers = <<>>
  /\ url = <<>>
  /\ matched = "null"
  /\ invoked = {}
  /\ helper = "none"
  /\ anchors = NoAnchors
  /\ outcome = "none"
  /\ leftover = <<>>
  /\ apiRequest = NoRequest

AvailNext ==
  \/ \E k \in 0..MaxCount : ESPN_getAvailableNames(k)
  \/ \E k \in 0..MaxCount : Sleeper_getAvailableNames(k)
  \/ \E k \in 0..MaxCount : Yahoo_getAvailableNames_NoTable(k)
  \/ \E k \in 0..MaxCount : Yahoo_getAvailableNames_Static(k)
  \/ \E k \in 0..MaxCount : Yahoo_getAvailableNames_Scrollable(k)
  \/ AvailStep
  \/ Avail_idle

SpecAvail == IdleInit /\ [][AvailNext]_vars

(***************************************************************************)
(* getDraftedNames()                                                       *)
(*                                                                         *)
(* The roster panel as one read finds it: ESPN reads the title attribute   *)
(* of every player cell, Sleeper the text of .name in every .player-data,  *)
(* Yahoo a {name, position, team} record from every filled row.            *)
(***************************************************************************)
YahooEntries ==
  [name : RowNames, position : {"QB", "WR"}, team : {"KC"}]
    \cup {[name |-> "A", position |-> "", team |-> "KC"],
          [name |-> "A", position |-> "QB", team |-> ""]}

DraftViews(s) ==
  IF s = "Yahoo" THEN SeqsUpTo(YahooEntries, MaxRows)
  ELSE SeqsUpTo(RowNames, MaxRows)

\* ESPN: if (title && title.trim()) push(title.trim())
\* Sleeper: if (name) push(name)
\* Yahoo: if (name && position && team) push({name, position, team})
RECURSIVE getCurrentDraftedNames(_, _)
getCurrentDraftedNames(s, view) ==
  IF view = <<>> THEN <<>>
  ELSE LET e == Head(view)
           kept == IF s = "Yahoo"
                   THEN e.name # "" /\ e.position # "" /\ e.team # ""
                   ELSE e # ""
       IN (IF kept THEN <<e>> ELSE <<>>)
            \o getCurrentDraftedNames(s, Tail(view))

\* The name an entry is compared by when the loop merges it.
DraftedName(s, e) == IF s = "Yahoo" THEN e.name ELSE e

\* ESPN: if (!playerNames.includes(name)) push
\* Yahoo: if (!playerNames.some(existing => existing.name === player.name)) push
RECURSIVE MergeDrafted(_, _, _)
MergeDrafted(s, acc, entries) ==
  IF entries = <<>> THEN acc
  ELSE LET e == Head(entries)
           known == \E i \in 1..Len(acc) :
                      DraftedName(s, acc[i]) = DraftedName(s, e)
       IN MergeDrafted(s, IF known THEN acc ELSE Append(acc, e), Tail(entries))

DraftedNamesOf(s, entries) ==
  [i \in 1..Len(entries) |-> DraftedName(s, entries[i])]

\* scrollTop, clientHeight and scrollHeight of the panel as one read of the
\* three properties finds them.
Geometries ==
  [scrollTop : 0..MaxOffset, clientHeight : 1..MaxClient,
   scrollHeight : 1..MaxHeight]

\* const isScrollable = scrollHeight > clientHeight
IsScrollable(g) == g.scrollHeight > g.clientHeight

\* currentScrollTop + currentClientHeight >= currentScrollHeight
AtBottom(g) == g.scrollTop + g.clientHeight >= g.scrollHeight

\* if (atBottom || currentScrollTop === previousScrollTop) break
BreakAtBottomOnly(g, previous) == AtBottom(g)
ShouldBreak(g, previous) == AtBottom(g) \/ g.scrollTop = previous

\* while (attempts < maxAttempts)
DraftedLoopForever(a) == TRUE
DraftedLoopCondition(a) == a < maxAttempts

\* The offset the latest read of the loop was made at: the top after
\* scrollDraftedToTop() on the first pass, afterwards the offset the previous
\* check stored.
LastReadOffset(previous) == IF previous = -1 THEN 0 ELSE previous

\* The names the panel renders when the check runs and the loop has not read:
\* those of the view at the offset scrollDraftedDown() reached, none when the
\* panel stands where the latest read was made.
RenderedUnread(s, g, previous, view) ==
  IF g.scrollTop = LastReadOffset(previous) THEN <<>>
  ELSE DraftedNamesOf(s, getCurrentDraftedNames(s, view))

ScrollingSites == {"ESPN", "Yahoo"}

DraftedFrame(b) ==
  /\ playerNames' = <<>>
  /\ attempts' = 0
  /\ previousScrollTop' = -1
  /\ result' = <<>>
  /\ reads' = 0
  /\ firstSeen' = <<>>
  /\ branch' = b
  /\ topResets' = 0
  /\ lastTop' = -1
  /\ lastBottom' = FALSE
  /\ innerColumn' = IF b = "loop" THEN rosterSection ELSE NoElement
  /\ consulted' = NoElement
  /\ atFinal' = <<>>

draftedRest == <<requiredCount, scrolls, normalized, rowsVars, rowVars,
                 callerVars, helperVars, leftover,
                 apiRequest, rosterSection, extVars>>

\* The panel is not in the document: return [].
getDraftedNames_NoPanel ==
  /\ pc = "idle"
  /\ DraftedFrame("absent")
  /\ pc' = "done"
  /\ UNCHANGED <<site, draftedRest>>

\* ESPN, Yahoo: the panel is not scrollable; the visible entries are returned.
getDraftedNames_Static ==
  /\ pc = "idle" /\ site \in ScrollingSites
  /\ \E g \in Geometries, view \in DraftViews(site) :
       /\ ~IsScrollable(g)
       /\ result' = getCurrentDraftedNames(site, view)
       /\ firstSeen' = FirstOccurrences(
            DraftedNamesOf(site, getCurrentDraftedNames(site, view)))
  /\ playerNames' = <<>>
  /\ attempts' = 0
  /\ previousScrollTop' = -1
  /\ reads' = 1
  /\ branch' = "static"
  /\ topResets' = 0
  /\ lastTop' = -1
  /\ lastBottom' = FALSE
  /\ innerColumn' = NoElement
  /\ consulted' = NoElement
  /\ atFinal' = <<>>
  /\ pc' = "done"
  /\ UNCHANGED <<site, draftedRest>>

\* Sleeper: the roster section is found (after a click on the Roster tab when
\* needed); its entries are returned without scrolling.
Sleeper_getDraftedNames ==
  /\ pc = "idle" /\ site = "Sleeper"
  /\ \E view \in DraftViews(site) :
       /\ result' = getCurrentDraftedNames(site, view)
       /\ firstSeen' = FirstOccurrences(
            DraftedNamesOf(site, getCurrentDraftedNames(site, view)))
  /\ playerNames' = <<>>
  /\ attempts' = 0
  /\ previousScrollTop' = -1
  /\ reads' = 1
  /\ branch' = "static"
  /\ topResets' = 0
  /\ lastTop' = -1
  /\ lastBottom' = FALSE
  /\ innerColumn' = NoElement
  /\ consulted' = NoElement
  /\ atFinal' = <<>>
  /\ pc' = "done"
  /\ UNCHANGED <<site, draftedRest>>

\* ESPN, Yahoo: the panel is scrollable.
getDraftedNames_Scrollable ==
  /\ pc = "idle" /\ site \in ScrollingSites
  /\ \E g \in Geometries : IsScrollable(g)
  /\ DraftedFrame("loop")
  /\ pc' = "draftTop"
  /\ UNCHANGED <<site, draftedRest>>

\* await this.scrollDraftedToTop(); await delay(300)
Drafted_scrollToTop ==
  /\ pc = "draftTop"
  /\ topResets' = topResets + 1
  /\ pc' = "draftLoop"
  /\ UNCHANGED <<site, playerNames, attempts, previousScrollTop, result,
                 reads, firstSeen, branch, lastTop, lastBottom, innerColumn,
                 consulted, atFinal, draftedRest>>

\* The loop body up to the await of scrollDraftedDown().
Drafted_readNames ==
  /\ pc = "draftLoop"
  /\ DraftedLoopCondition(attempts)
  /\ \E view \in DraftViews(site) :
       LET currentNames == getCurrentDraftedNames(site, view)
       IN /\ playerNames' = MergeDrafted(site, playerNames, currentNames)
          /\ firstSeen' = FirstOccurrences(
               firstSeen \o DraftedNamesOf(site, currentNames))
  /\ reads' = reads + 1
  /\ pc' = "draftScroll"
  /\ UNCHANGED <<site, attempts, previousScrollTop, result, branch,
                 topResets, lastTop, lastBottom, innerColumn,
                 consulted, atFinal, draftedRest>>

\* After scrollDraftedDown() resumes: the offset and the heights are read
\* and the loop breaks at the bottom or when the offset has not moved.
Drafted_checkBreak ==
  /\ pc = "draftScroll"
  /\ \E g \in Geometries :
       /\ ShouldBreak(g, previousScrollTop)
       /\ lastTop' = g.scrollTop
       /\ lastBottom' = AtBottom(g)
       /\ consulted' = CheckedElement(innerColumn, rosterSection)
       /\ \E view \in DraftViews(site) :
            atFinal' = RenderedUnread(site, g, previousScrollTop, view)
  /\ pc' = "draftReset"
  /\ UNCHANGED <<site, playerNames, attempts, previousScrollTop, result,
                 reads, firstSeen, branch, topResets, innerColumn,
                 draftedRest>>

\* previousScrollTop = currentScrollTop; await delay(200); attempts++
Drafted_checkContinue ==
  /\ pc = "draftScroll"
  /\ \E g \in Geometries :
       /\ ~ShouldBreak(g, previousScrollTop)
       /\ lastTop' = g.scrollTop
       /\ lastBottom' = AtBottom(g)
       /\ consulted' = CheckedElement(innerColumn, rosterSection)
       /\ previousScrollTop' = g.scrollTop
  /\ attempts' = attempts + 1
  /\ pc' = "draftLoop"
  /\ UNCHANGED <<site, playerNames, result, reads, firstSeen, branch,
                 topResets, innerColumn, atFinal, draftedRest>>

\* The loop condition fails: the ceiling is reached.
Drafted_loopExit ==
  /\ pc = "draftLoop"
  /\ ~DraftedLoopCondition(attempts)
  /\ pc' = "draftReset"
  /\ UNCHANGED <<site, availVars, draftOnly, rowsVars, rowVars, callerVars,
                 helperVars, leftover,
                 apiRequest, rosterSection, extVars>>

\* await this.scrollDraftedToTop(); return playerNames
Drafted_return ==
  /\ pc = "draftReset"
  /\ topResets' = topResets + 1
  /\ result' = playerNames
  /\ pc' = "done"
  /\ UNCHANGED <<site, playerNames, attempts, previousScrollTop, reads,
                 firstSeen, branch, lastTop, lastBottom, innerColumn,
                 consulted, atFinal, draftedRest>>

\* The caller has taken the result; the next call starts from a fresh frame.
Drafted_idle ==
  /\ pc = "done"
  /\ DraftedFrame("none")
  /\ pc' = "idle"
  /\ UNCHANGED <<site, draftedRest>>

DraftedStep ==
  \/ Drafted_scrollToTop
  \/ Drafted_readNames
  \/ Drafted_checkBreak
  \/ Drafted_checkContinue
  \/ Drafted_loopExit
  \/ Drafted_return

DraftedNext ==
  \/ getDraftedNames_NoPanel
  \/ getDraftedNames_Static
  \/ Sleeper_getDraftedNames
  \/ getDraftedNames_Scrollable
  \/ DraftedStep
  \/ Drafted_idle

SpecDrafted == IdleInit /\ [][DraftedNext]_vars

(***************************************************************************)
(* The host page during a collection                                       *)
(*                                                                         *)
(* While getDraftedNames is suspended on a timer the host page may render  *)
(* the roster panel anew: the element the document held is detached and a  *)
(* new one takes its place.  findDraftedRosterSection() (ESPN) and         *)
(* findMyTeamTableContainer() (Yahoo) return the element the document      *)
(* holds when they are called.                                             *)
(***************************************************************************)
MaxReplaced == 2

Suspended == pc \in {"draftTop", "draftLoop", "draftScroll"}

Host_replacePanel ==
  /\ Suspended
  /\ rosterSection < MaxReplaced
  /\ rosterSection' = rosterSection + 1
  /\ UNCHANGED <<site, pc, availVars, draftOnly, rowsVars, rowVars,
                 callerVars, helperVars, leftover, apiRequest, extVars>>

StaleNext ==
  \/ getDraftedNames_NoPanel
  \/ getDraftedNames_Static
  \/ Sleeper_getDraftedNames
  \/ getDraftedNames_Scrollable
  \/ DraftedStep
  \/ Drafted_idle
  \/ Host_replacePanel

SpecStale == IdleInit /\ [][StaleNext]_vars

(***************************************************************************)
(* getPlayerRows()                                                         *)
(*                                                                         *)
(* The document under query: whether the site's players container is       *)
(* there, the elements the selector finds inside it in document order, and *)
(* the top of each row's bounding rectangle.  Sleeper and Yahoo select the *)
(* row elements themselves; ESPN selects the name elements, each given by  *)
(* what its three closest() lookups find.                                  *)
(***************************************************************************)
null == "null"

RowIds(s) == IF s = "ESPN" THEN {"r1", "r2"} ELSE {"r1", "r2", "r3"}

Tops == 1..MaxTop

NameElements ==
  [role : RowIds("ESPN") \cup {null}, tr : RowIds("ESPN") \cup {null},
   cls : RowIds("ESPN") \cup {null}]

\* querySelectorAll lists an element once.
ListedRows(s) ==
  {q \in SeqsUpTo(RowIds(s), MaxListed) : \A i, j \in 1..Len(q) : q[i] = q[j] => i = j}

Documents(s) ==
  {NoDocument} \cup
  [present : {TRUE},
   elems : IF s = "ESPN" THEN SeqsUpTo(NameElements, MaxElems) ELSE ListedRows(s),
   top : [RowIds(s) -> Tops]]

\* nameElement.closest('[role="row"]') || nameElement.closest('tr') ||
\* nameElement.closest('[class*="row"]')
RowAncestor(e) ==
  IF e.role # null THEN e.role ELSE IF e.tr # null THEN e.tr ELSE e.cls

\* The rows before they are sorted.  ESPN pushes the row of every name
\* element that has one.
RECURSIVE ESPNRowElements(_)
ESPNRowElements(elems) ==
  IF elems = <<>> THEN <<>>
  ELSE (IF RowAncestor(Head(elems)) # null
        THEN <<RowAncestor(Head(elems))>> ELSE <<>>)
         \o ESPNRowElements(Tail(elems))

RowElements(s, d) == IF s = "ESPN" THEN ESPNRowElements(d.elems) ELSE d.elems

\* The comparator passed to sort: rectA.top - rectB.top.
CompareReversed(topA, topB) == topB - topA
Compare(topA, topB) == topA - topB

\* Array.prototype.sort is stable: an element goes behind every element that
\* does not compare greater.
RECURSIVE InsertSorted(_, _, _)
InsertSorted(sorted, r, top) ==
  IF sorted = <<>> THEN <<r>>
  ELSE IF Compare(top[Head(sorted)], top[r]) <= 0
       THEN <<Head(sorted)>> \o InsertSorted(Tail(sorted), r, top)
       ELSE <<r>> \o sorted

RECURSIVE SortByTop(_, _)
SortByTop(rows, top) ==
  IF rows = <<>> THEN <<>>
  ELSE InsertSorted(SortByTop(SubSeq(rows, 1, Len(rows) - 1), top),
                    rows[Len(rows)], top)

\* The roots of the rows getPlayerRows() returns, in the order returned.
getPlayerRows(s, d) ==
  IF ~d.present THEN <<>> ELSE SortByTop(RowElements(s, d), d.top)

rowsRest == <<site, availVars, draftOnly, rowVars, callerVars, helperVars,
                 leftover,
                 apiRequest, rosterSection, extVars>>

ESPN_getPlayerRows ==
  /\ pc = "idle" /\ site = "ESPN"
  /\ \E d \in Documents(site) :
       doc' = d /\ playerRows' = getPlayerRows(site, d)
  /\ pc' = "listed"
  /\ UNCHANGED rowsRest

Sleeper_getPlayerRows ==
  /\ pc = "idle" /\ site = "Sleeper"
  /\ \E d \in Documents(site) :
       doc' = d /\ playerRows' = getPlayerRows(site, d)
  /\ pc' = "listed"
  /\ UNCHANGED rowsRest

Yahoo_getPlayerRows ==
  /\ pc = "idle" /\ site = "Yahoo"
  /\ \E d \in Documents(site) :
       doc' = d /\ playerRows' = getPlayerRows(site, d)
  /\ pc' = "listed"
  /\ UNCHANGED rowsRest

\* The caller drops the rows; the next query builds them afresh.
Rows_idle ==
  /\ pc = "listed"
  /\ doc' = NoDocument
  /\ playerRows' = <<>>
  /\ pc' = "idle"
  /\ UNCHANGED rowsRest

RowsNext ==
  \/ ESPN_getPlayerRows
  \/ Sleeper_getPlayerRows
  \/ Yahoo_getPlayerRows
  \/ Rows_idle

SpecRows == IdleInit /\ [][RowsNext]_vars

(***************************************************************************)
(* Successive getAvailableNames calls on one parser.  When a call has      *)
(* returned, what its accumulator held is remembered, to tell whether the  *)
(* next call starts from it.                                               *)
(***************************************************************************)
Calls_idle ==
  /\ pc = "done"
  /\ leftover' = playerNames
  /\ requiredCount' = 0
  /\ playerNames' = <<>>
  /\ attempts' = 0
  /\ result' = <<>>
  /\ reads' = 0
  /\ scrolls' = 0
  /\ firstSeen' = <<>>
  /\ branch' = "none"
  /\ normalized' = FALSE
  /\ topResets' = 0
  /\ pc' = "idle"
  /\ UNCHANGED <<site, draftOnly, rowsVars, rowVars, callerVars, helperVars,
                 apiRequest, rosterSection, extVars>>

CallsNext ==
  \/ \E k \in 0..MaxCount : ESPN_getAvailableNames(k)
  \/ \E k \in 0..MaxCount : Sleeper_getAvailableNames(k)
  \/ \E k \in 0..MaxCount : Yahoo_getAvailableNames_NoTable(k)
  \/ \E k \in 0..MaxCount : Yahoo_getAvailableNames_Static(k)
  \/ \E k \in 0..MaxCount : Yahoo_getAvailableNames_Scrollable(k)
  \/ AvailStep
  \/ Calls_idle

SpecCalls == IdleInit /\ [][CallsNext]_vars

(***************************************************************************)
(* The content controller: after getDraftedNames has returned it builds    *)
(* the analysis request, choosing the key of the drafted list by the       *)
(* parser's usesDraftAbbreviations().                                      *)
(***************************************************************************)
\* A variant in which the Yahoo parser answers like the others.
NoDraftAbbreviations(s) == FALSE

usesDraftAbbreviations(s) == s = "Yahoo"

\* The names getAvailableNames handed to the controller.
AvailableLists == {<<>>, <<"A">>, <<"A", "B">>}

\* handleFloatingButtonClick from the return of getDraftedNames on: no
\* request is built when no available name was found.
Content_buildRequest ==
  /\ pc = "done"
  /\ \E availableNames \in AvailableLists :
       apiRequest' =
         IF availableNames = <<>> THEN NoRequest
         ELSE IF usesDraftAbbreviations(site)
         THEN [players_available |-> availableNames,
               scoring_type |-> "standard",
               players_drafted_abbreviations |-> result]
         ELSE [players_available |-> availableNames,
               scoring_type |-> "standard",
               players_drafted |-> result]
  /\ pc' = "handled"
  /\ UNCHANGED <<site, availVars, draftOnly, rowsVars, rowVars, callerVars,
                 helperVars, leftover, rosterSection, extVars>>

\* The handler is over; the next click starts from a fresh frame.
Content_idle ==
  /\ pc = "handled"
  /\ DraftedFrame("none")
  /\ apiRequest' = NoRequest
  /\ pc' = "idle"
  /\ UNCHANGED <<site, requiredCount, scrolls, normalized, rowsVars, rowVars,
                 callerVars, helperVars, leftover, rosterSection, extVars>>

RequestNext ==
  \/ getDraftedNames_NoPanel
  \/ getDraftedNames_Static
  \/ Sleeper_getDraftedNames
  \/ getDraftedNames_Scrollable
  \/ DraftedStep
  \/ Content_buildRequest
  \/ Content_idle

SpecRequest == IdleInit /\ [][RequestNext]_vars

(***************************************************************************)
(* PlayerRow: getName() and addActionButton() over a document tree.        *)
(* A node is a text node carrying characters or an element carrying a tag, *)
(* classes and children; a path is the sequence of child indexes leading   *)
(* from the document body to a node.  Text is a sequence of characters so  *)
(* that textContent and trim() are computed.                               *)
(***************************************************************************)
Txt(s) == [kind |-> "#text", cls |-> {}, text |-> s, kids |-> <<>>]
El(tag, classes, children) ==
  [kind |-> tag, cls |-> classes, text |-> <<>>, kids |-> children]

NoPath == <<0>>
ButtonClass == "drafty-action-btn"

RECURSIVE NodeAt(_, _)
NodeAt(t, p) == IF p = <<>> THEN t ELSE NodeAt(t.kids[Head(p)], Tail(p))

RECURSIVE ReplaceAt(_, _, _)
ReplaceAt(t, p, n) ==
  IF p = <<>> THEN n
  ELSE [t EXCEPT !.kids[Head(p)] = ReplaceAt(t.kids[Head(p)], Tail(p), n)]

parentElement(p) == IF p = <<>> THEN NoPath ELSE SubSeq(p, 1, Len(p) - 1)

\* Node.textContent: the concatenated text of the node's text descendants.
RECURSIVE textContent(_)
textContent(n) ==
  IF n.kind = "#text" THEN n.text
  ELSE LET F[i \in 0..Len(n.kids)] ==
             IF i = 0 THEN <<>> ELSE F[i - 1] \o textContent(n.kids[i])
       IN F[Len(n.kids)]

\* String.prototype.trim over the model's whitespace character.
RECURSIVE trimStart(_)
trimStart(s) ==
  IF s # <<>> /\ Head(s) = " " THEN trimStart(Tail(s)) ELSE s

RECURSIVE trimEnd(_)
trimEnd(s) ==
  IF s # <<>> /\ s[Len(s)] = " " THEN trimEnd(SubSeq(s, 1, Len(s) - 1)) ELSE s

trim(s) == trimEnd(trimStart(s))

\* Paths of the descendants of n, relative to n, in document order.
RECURSIVE Descendants(_)
Descendants(n) ==
  LET Under(i) == LET d == Descendants(n.kids[i])
                  IN <<<<i>>>> \o [j \in 1..Len(d) |-> <<i>> \o d[j]]
      F[i \in 0..Len(n.kids)] == IF i = 0 THEN <<>> ELSE F[i - 1] \o Under(i)
  IN F[Len(n.kids)]

IsElement(n) == n.kind # "#text"
IsButton(n) == IsElement(n) /\ ButtonClass \in n.cls

\* The 1-based position of child i among the element children of n.
ElementIndex(n, i) == Cardinality({j \in 1..i : IsElement(n.kids[j])})

\* Whether the node at path p matches the site's player name selector.
NameSelectorMatches(s, t, p) ==
  LET n == NodeAt(t, p) IN
  CASE s = "ESPN" -> "playerinfo__playername" \in n.cls
    [] s = "Sleeper" -> "name-wrapper" \in n.cls
    [] s = "Yahoo" ->
         /\ n.kind = "span"
         /\ p # <<>>
         /\ LET parent == NodeAt(t, parentElement(p)) IN
              /\ parent.kind = "td"
              /\ "Ta-start" \in parent.cls
              /\ ElementIndex(parent, p[Len(p)]) = 3

ButtonMatches(s, t, p) == IsButton(NodeAt(t, p))

PLAYER_NAME_SELECTOR == "PLAYER_NAME_SELECTOR"
ButtonSelector == ".drafty-action-btn"

Matches(selector, s, t, p) ==
  IF selector = ButtonSelector THEN ButtonMatches(s, t, p)
  ELSE NameSelectorMatches(s, t, p)

\* Element.querySelector: the first matching descendant in document order.
querySelector(s, t, from, selector) ==
  LET ds == Descendants(NodeAt(t, from))
      hits == {i \in 1..Len(ds) : Matches(selector, s, t, from \o ds[i])}
  IN IF hits = {} THEN NoPath
     ELSE from \o ds[CHOOSE i \in hits : \A j \in hits : i <= j]

\* Element.closest: the nearest inclusive ancestor carrying the class.
closest(t, p, class) ==
  LET hits == {k \in 0..Len(p) : class \in NodeAt(t, SubSeq(p, 1, k)).cls}
  IN IF hits = {} THEN NoPath
     ELSE SubSeq(p, 1, CHOOSE k \in hits : \A j \in hits : j <= k)

\* The clone of a node with every injected control removed from it.
RECURSIVE RemoveButtons(_)
RemoveButtons(n) ==
  IF n.kind = "#text" THEN n
  ELSE LET F[i \in 0..Len(n.kids)] ==
             IF i = 0 THEN <<>>
             ELSE IF IsButton(n.kids[i]) THEN F[i - 1]
                  ELSE Append(F[i - 1], RemoveButtons(n.kids[i]))
       IN [n EXCEPT !.kids = F[Len(n.kids)]]

\* The text getName() reads from the cleaned clone of the name element.
NameText(s, cleaned) ==
  IF s = "Sleeper"
  THEN IF cleaned.kids = <<>> THEN <<>> ELSE trim(textContent(cleaned.kids[1]))
  ELSE trim(textContent(cleaned))

\* The text of the whole row with injected controls removed.
RowText(t, r) == trim(textContent(RemoveButtons(NodeAt(t, r))))

\* A variant that reads the whole row when the name element yields nothing.
getNameOrRowText(s, t, r) ==
  LET nameElement == querySelector(s, t, r, PLAYER_NAME_SELECTOR)
      found == IF nameElement = NoPath THEN <<>>
               ELSE NameText(s, RemoveButtons(NodeAt(t, nameElement)))
  IN IF found = <<>> THEN RowText(t, r) ELSE found

getName(s, t, r) ==
  LET nameElement == querySelector(s, t, r, PLAYER_NAME_SELECTOR)
  IN IF nameElement = NoPath THEN <<>>
     ELSE NameText(s, RemoveButtons(NodeAt(t, nameElement)))

\* document.createElement('button') as addActionButton fills it in.
ActionButton == El("button", {ButtonClass}, <<El("img", {}, <<>>)>>)

appendChild(t, parent, n) ==
  ReplaceAt(t, parent, [NodeAt(t, parent) EXCEPT !.kids = Append(@, n)])

\* A variant that puts the control in front of the name element.
InsertInFront(t, p, n) ==
  LET parent == NodeAt(t, parentElement(p))
      i == p[Len(p)]
  IN ReplaceAt(t, parentElement(p),
               [parent EXCEPT !.kids = SubSeq(@, 1, i - 1) \o <<n>>
                                         \o SubSeq(@, i, Len(@))])

\* parent.insertBefore(n, child.nextSibling) for the child at path p.
InsertNextTo(t, p, n) ==
  LET parent == NodeAt(t, parentElement(p))
      i == p[Len(p)]
  IN ReplaceAt(t, parentElement(p),
               [parent EXCEPT !.kids = SubSeq(@, 1, i) \o <<n>>
                                         \o SubSeq(@, i + 1, Len(@))])

HasButton(s, t, from) == querySelector(s, t, from, ButtonSelector) # NoPath

ESPN_addActionButton(t, r) ==
  LET nameElement == querySelector("ESPN", t, r, PLAYER_NAME_SELECTOR)
      flexContainer == closest(t, nameElement, "flex")
      parent == parentElement(nameElement)
  IN IF HasButton("ESPN", t, r) THEN t
     ELSE IF nameElement = NoPath THEN t
     ELSE IF flexContainer # NoPath /\ ~HasButton("ESPN", t, flexContainer)
          THEN appendChild(t, flexContainer, ActionButton)
     ELSE IF parent # NoPath /\ ~HasButton("ESPN", t, parent)
          THEN InsertNextTo(t, nameElement, ActionButton)
     ELSE t

Sleeper_addActionButton(t, r) ==
  LET nameElement == querySelector("Sleeper", t, r, PLAYER_NAME_SELECTOR)
  IN IF HasButton("Sleeper", t, r) THEN t
     ELSE IF nameElement = NoPath THEN t
     ELSE IF parentElement(nameElement) = NoPath THEN t
     ELSE InsertNextTo(t, nameElement, ActionButton)

Yahoo_addActionButton(t, r) ==
  LET nameElement == querySelector("Yahoo", t, r, PLAYER_NAME_SELECTOR)
  IN IF HasButton("Yahoo", t, r) THEN t
     ELSE IF nameElement = NoPath THEN t
     ELSE IF parentElement(nameElement) = NoPath THEN t
     ELSE InsertNextTo(t, nameElement, ActionButton)

(***************************************************************************)
(* The rows a host page can render: a name element (or an element that no  *)
(* name selector matches) holding up to MaxKids children, with other cells *)
(* around it, laid out directly in the row, in a cell, in a flex container *)
(* inside the row, or with the row itself inside a flex container.         *)
(***************************************************************************)
MaxKids == 2
MaxAdds == 2

NameKid ==
  { Txt(<<"A">>), Txt(<<" ">>), Txt(<<" ", "B", " ">>),
    El("div", {"position"}, <<Txt(<<"Q">>)>>) }
NameKids == SeqsUpTo(NameKid, MaxKids)

Layouts(s) ==
  CASE s = "ESPN" -> {"plain", "cell", "flexcell", "outerflex", "sharedflex"}
    [] s = "Sleeper" -> {"plain", "cell"}
    [] s = "Yahoo" -> {"td"}

Fixtures(s) ==
  [layout : Layouts(s), named : BOOLEAN, selfFlex : {FALSE} \cup {s = "ESPN"},
   kids : NameKids, before : BOOLEAN, after : BOOLEAN]

OtherCell == El("div", {}, <<Txt(<<"x">>)>>)
OtherSpan == El("span", {}, <<Txt(<<"x">>)>>)

NameElementOf(s, f) ==
  CASE s = "ESPN" ->
         El("span", (IF f.named THEN {"playerinfo__playername"} ELSE {})
                      \cup (IF f.selfFlex THEN {"flex"} ELSE {}), f.kids)
    [] s = "Sleeper" ->
         El("div", IF f.named THEN {"name-wrapper"} ELSE {}, f.kids)
    [] s = "Yahoo" -> El("span", {}, f.kids)

\* The name element among its siblings.  A Yahoo name is the third element
\* child of its cell; an unnamed Yahoo fixture puts the span second.
Group(s, f) ==
  (IF s = "Yahoo"
   THEN (IF f.before THEN <<Txt(<<" ">>)>> ELSE <<>>)
          \o <<OtherSpan>> \o (IF f.named THEN <<OtherSpan>> ELSE <<>>)
   ELSE IF f.before THEN <<OtherCell>> ELSE <<>>)
  \o <<NameElementOf(s, f)>>
  \o (IF f.after THEN <<OtherCell>> ELSE <<>>)

Body(children) == El("body", {}, children)
OtherRow == El("div", {"row"}, <<ActionButton>>)

PageOf(s, f) ==
  CASE f.layout = "plain" -> Body(<<El("div", {"row"}, Group(s, f))>>)
    [] f.layout = "cell" ->
         Body(<<El("div", {"row"}, <<El("div", {}, Group(s, f))>>)>>)
    [] f.layout = "flexcell" ->
         Body(<<El("div", {"row"}, <<El("div", {"flex"}, Group(s, f))>>)>>)
    [] f.layout = "outerflex" ->
         Body(<<El("div", {"flex"}, <<El("div", {"row"}, Group(s, f))>>)>>)
    [] f.layout = "sharedflex" ->
         Body(<<El("div", {"flex"},
                   <<El("div", {"row"}, Group(s, f)), OtherRow>>)>>)
    [] f.layout = "td" ->
         Body(<<El("tr", {"ys-player"},
                   <<El("td", {"Ta-start"}, Group(s, f))>>)>>)

RootOf(f) ==
  IF f.layout \in {"outerflex", "sharedflex"} THEN <<1, 1>> ELSE <<1>>

rowRest == <<site, availVars, draftOnly, rowsVars, callerVars, helperVars,
                 leftover,
                 apiRequest, rosterSection, extVars>>

\* new ESPNPlayerRow(root) | new SleeperPlayerRow(root) | new YahooPlayerRow(root)
PlayerRow(s) ==
  /\ pc = "idle"
  /\ site = s
  /\ \E f \in Fixtures(s) :
       /\ page' = PageOf(s, f)
       /\ root' = RootOf(f)
       /\ nameBefore' = getName(s, PageOf(s, f), RootOf(f))
  /\ adds' = 0
  /\ pc' = "row"
  /\ UNCHANGED <<pending, rowRest>>

ESPN_PlayerRow == PlayerRow("ESPN")
Sleeper_PlayerRow == PlayerRow("Sleeper")
Yahoo_PlayerRow == PlayerRow("Yahoo")

CanAdd(s) == pc = "row" /\ site = s /\ adds < MaxAdds

Row_ESPN_addActionButton ==
  /\ CanAdd("ESPN")
  /\ page' = ESPN_addActionButton(page, root)
  /\ adds' = adds + 1
  /\ UNCHANGED <<pc, root, nameBefore, pending, rowRest>>

Row_Sleeper_addActionButton ==
  /\ CanAdd("Sleeper")
  /\ page' = Sleeper_addActionButton(page, root)
  /\ adds' = adds + 1
  /\ UNCHANGED <<pc, root, nameBefore, pending, rowRest>>

Row_Yahoo_addActionButton ==
  /\ CanAdd("Yahoo")
  /\ page' = Yahoo_addActionButton(page, root)
  /\ adds' = adds + 1
  /\ UNCHANGED <<pc, root, nameBefore, pending, rowRest>>

\* The row object is dropped; the next one is built over a fresh row.
Row_idle ==
  /\ pc = "row"
  /\ pc' = "idle"
  /\ page' = EmptyPage
  /\ root' = <<>>
  /\ nameBefore' = <<>>
  /\ adds' = 0
  /\ UNCHANGED <<pending, rowRest>>

RowNext ==
  \/ ESPN_PlayerRow
  \/ Sleeper_PlayerRow
  \/ Yahoo_PlayerRow
  \/ Row_ESPN_addActionButton
  \/ Row_Sleeper_addActionButton
  \/ Row_Yahoo_addActionButton
  \/ Row_idle

SpecRow == IdleInit /\ [][RowNext]_vars

(***************************************************************************)
(* ParserManager: the registered parsers and the lookup by URL.  A URL is  *)
(* a sequence of pieces; the pieces that canParse looks for are atomic.    *)
(***************************************************************************)
MaxUrl == 2

UrlPieces ==
  { "https://", "?x", "fantasy.espn.com/football/draft",
    "https://football.fantasysports.yahoo.com/draftclient/",
    "https://sleeper.com/draft" }
Urls == SeqsUpTo(UrlPieces, MaxUrl)

canParse(s, u) ==
  CASE s = "ESPN" ->
         \E i \in 1..Len(u) : u[i] = "fantasy.espn.com/football/draft"
    [] s = "Yahoo" ->
         /\ u # <<>>
         /\ u[1] = "https://football.fantasysports.yahoo.com/draftclient/"
    [] s = "Sleeper" -> u # <<>> /\ u[1] = "https://sleeper.com/draft"

\* this.parsers after registerParsers(): the parsers pushed, in order.
registerParsers == <<"ESPN">>

\* A variant that hands back the first registered parser unasked.
getFirstRegistered(list, u) == IF list = <<>> THEN null ELSE list[1]

\* this.parsers.find(parser => parser.canParse(url)) || null
getParserForUrl(list, u) ==
  LET hits == {i \in 1..Len(list) : canParse(list[i], u)}
  IN IF hits = {} THEN null
     ELSE list[CHOOSE i \in hits : \A j \in hits : i <= j]

\* A variant that delegates without the null check of the lookup.
RowsOfAnyParser(list, u, d) == getPlayerRows(list[1], d)

\* What ParserManager.getPlayerRows(url) returns over the document d.
ManagerPlayerRows(list, u, d) ==
  IF getParserForUrl(list, u) = null THEN <<>>
  ELSE getPlayerRows(getParserForUrl(list, u), d)

managerRest == <<site, availVars, draftOnly, rowVars, helperVars, leftover,
                 apiRequest, rosterSection, extVars>>

\* ParserManager.getInstance(): the constructor runs once.
ParserManager_getInstance ==
  /\ pc = "idle"
  /\ parsers' = IF parsers = <<>> THEN registerParsers ELSE parsers
  /\ UNCHANGED <<pc, url, matched, invoked, rowsVars, managerRest>>

ParserManager_getParserForUrl ==
  /\ pc = "idle"
  /\ parsers # <<>>
  /\ \E u \in Urls :
       /\ url' = u
       /\ matched' = getParserForUrl(parsers, u)
  /\ pc' = "resolved"
  /\ UNCHANGED <<parsers, invoked, rowsVars, managerRest>>

ParserManager_getPlayerRows ==
  /\ pc = "idle"
  /\ parsers # <<>>
  /\ \E u \in Urls :
       LET parser == getParserForUrl(parsers, u) IN
       /\ url' = u
       /\ matched' = parser
       /\ invoked' = IF parser = null THEN {} ELSE {parser}
       /\ \E d \in Documents(IF parser = null THEN "ESPN" ELSE parser) :
            /\ doc' = d
            /\ playerRows' = ManagerPlayerRows(parsers, u, d)
  /\ pc' = "delegated"
  /\ UNCHANGED <<parsers, managerRest>>

\* The caller has consumed the answer.
Manager_idle ==
  /\ pc \in {"resolved", "delegated"}
  /\ pc' = "idle"
  /\ url' = <<>>
  /\ matched' = null
  /\ invoked' = {}
  /\ doc' = NoDocument
  /\ playerRows' = <<>>
  /\ UNCHANGED <<parsers, managerRest>>

ManagerNext ==
  \/ ParserManager_getInstance
  \/ ParserManager_getParserForUrl
  \/ ParserManager_getPlayerRows
  \/ Manager_idle

SpecManager == IdleInit /\ [][ManagerNext]_vars

(***************************************************************************)
(* The helpers of the parsers and the anchors they look for: the players   *)
(* container, the scrollbar track and face inside it, the filter controls, *)
(* the roster panel and the tab that opens it.  A helper looks its anchors *)
(* up afresh and returns at once when one is missing.                      *)
(***************************************************************************)
AnchorSets ==
  [container : BOOLEAN, track : BOOLEAN, face : BOOLEAN, filters : BOOLEAN,
   panel : BOOLEAN, tab : BOOLEAN]

Helpers ==
  { "getPlayerRows", "scrollToTop", "scrollDown", "ensureCorrectPlayerView",
    "findDraftedRosterSection", "scrollDraftedDown" }

\* Whether the helper finds every element it is about to use.
Found(s, h, a) ==
  CASE h = "getPlayerRows" -> a.container
    [] h = "scrollToTop" ->
         IF s = "Yahoo" THEN a.container
         ELSE a.container /\ a.face /\ a.track
    [] h = "scrollDown" ->
         IF s = "Yahoo" THEN a.container ELSE a.container /\ a.face
    [] h = "ensureCorrectPlayerView" ->
         IF s = "Sleeper" THEN a.container /\ a.filters ELSE a.filters
    [] h = "findDraftedRosterSection" ->
         IF s = "Sleeper" THEN a.panel \/ a.tab ELSE a.panel
    [] h = "scrollDraftedDown" -> a.panel

\* A variant without the null checks: using a missing element throws.
OutcomeUnguarded(s, h, a) == IF Found(s, h, a) THEN "acted" ELSE "thrown"

\* if (!element) return; ... element.dispatchEvent(...)
Outcome(s, h, a) == IF Found(s, h, a) THEN "acted" ELSE "skipped"

helperRest == <<site, availVars, draftOnly, rowVars, callerVars, leftover,
                 apiRequest, rosterSection, extVars>>

\* One helper runs over the document as it is at that moment.
Helper_call ==
  /\ pc = "idle"
  /\ \E h \in Helpers, a \in AnchorSets :
       /\ helper' = h
       /\ anchors' = a
       /\ outcome' = Outcome(site, h, a)
       /\ IF h = "getPlayerRows" /\ Outcome(site, h, a) # "thrown"
          THEN \E d \in Documents(site) :
                 /\ d.present = a.container
                 /\ doc' = d
                 /\ playerRows' = getPlayerRows(site, d)
          ELSE UNCHANGED rowsVars
  /\ pc' = "stepped"
  /\ UNCHANGED helperRest

Helper_idle ==
  /\ pc = "stepped"
  /\ pc' = "idle"
  /\ helper' = "none"
  /\ anchors' = NoAnchors
  /\ outcome' = "none"
  /\ doc' = NoDocument
  /\ playerRows' = <<>>
  /\ UNCHANGED helperRest

AnchorsNext == Helper_call \/ Helper_idle

SpecAnchors == IdleInit /\ [][AnchorsNext]_vars

(***************************************************************************)
(* StorageService                                                          *)
(*                                                                         *)
(* chrome.storage.local holds at most one auth token and one user record.  *)
(* A token carries the time it expires at.  get() answers null when the    *)
(* read throws.  getAuthToken() is suspended twice: on the read and, when  *)
(* the token has expired, on the removal; the clock and the other contexts *)
(* of the extension move on meanwhile.                                     *)
(***************************************************************************)
MaxNow == 3

AuthTokens == {[expiresAt |-> e] : e \in 0..MaxNow}

get(key, throws) == IF throws THEN null_ ELSE storage[key]

set(key, value) == [storage EXCEPT ![key] = {value}]

remove(key) == [storage EXCEPT ![key] = null_]

NeverExpired(t, time) == FALSE
IsExpired(t, time) == time > t.expiresAt

\* const token = await this.get<AuthToken>(STORAGE_KEYS.AUTH_TOKEN)
getAuthToken_get ==
  /\ step = "none"
  /\ \E throws \in BOOLEAN :
       /\ token' = get("auth_token", throws)
       /\ readError' = throws
  /\ step' = "gotToken"
  /\ UNCHANGED <<storageRest, now, storage, returned>>

\* if (!token) return null
getAuthToken_null ==
  /\ step = "gotToken"
  /\ token = null_
  /\ returned' = null_
  /\ step' = "returned"
  /\ UNCHANGED <<storageRest, now, storage, token, readError>>

\* if (Date.now() > token.expiresAt): the call goes on to clearAuthToken()
getAuthToken_expired ==
  /\ step = "gotToken"
  /\ \E t \in token : IsExpired(t, now)
  /\ step' = "clearing"
  /\ UNCHANGED <<storageRest, now, storage, token, returned, readError>>

\* await this.clearAuthToken(); return null
getAuthToken_clear ==
  /\ step = "clearing"
  /\ storage' = remove("auth_token")
  /\ returned' = null_
  /\ step' = "returned"
  /\ UNCHANGED <<storageRest, now, token, readError>>

\* return token
getAuthToken_valid ==
  /\ step = "gotToken"
  /\ \E t \in token : ~IsExpired(t, now)
  /\ returned' = token
  /\ step' = "returned"
  /\ UNCHANGED <<storageRest, now, storage, token, readError>>

\* The caller has taken the answer.
getAuthToken_taken ==
  /\ step = "returned"
  /\ step' = "none"
  /\ token' = null_
  /\ returned' = null_
  /\ readError' = FALSE
  /\ UNCHANGED <<storageRest, now, storage>>

\* Another context of the extension stores a token (login, signup).
setAuthToken ==
  /\ \E t \in AuthTokens : storage' = set("auth_token", t)
  /\ UNCHANGED <<storageRest, now, step, token, returned, readError>>

\* Time passes.
Tick ==
  /\ now < MaxNow
  /\ now' = now + 1
  /\ UNCHANGED <<storageRest, storage, step, token, returned, readError>>

StorageNext ==
  \/ getAuthToken_get
  \/ getAuthToken_null
  \/ getAuthToken_expired
  \/ getAuthToken_clear
  \/ getAuthToken_valid
  \/ getAuthToken_taken
  \/ setAuthToken
  \/ Tick

SpecStorage == IdleInit /\ [][StorageNext]_vars

(***************************************************************************)
(* ContentScript.handleFloatingButtonClick and handlePlayerClick           *)
(*                                                                         *)
(* A run of a handler is cut at its awaits: getAuthToken(), the two        *)
(* collections of the parser, the API request.  What the parser and the    *)
(* backend answer is an input: a list of names that is empty or not, a     *)
(* response that succeeds or not, or an exception.  The loading overlay is *)
(* an element of the document and outlives the run that leaves it there.   *)
(***************************************************************************)
NoAuthCheck(t) == TRUE
HasToken(t) == t # null_

LeaveOverlay(n) == n
hideLoadingOverlay(n) == IF n > 0 THEN n - 1 ELSE 0

showLoadingOverlay(n) == hideLoadingOverlay(n) + 1

clickRest == <<parserVars, now, storage, syncVars, popupVars>>

Click_floatingButton ==
  /\ handler = "none" /\ step = "none"
  /\ handler' = "floating"
  /\ UNCHANGED <<clickRest, step, token, returned, readError, overlay,
                 collections, requests, authPopup, path>>

\* handlePlayerClick: the row has a name.
Click_player ==
  /\ handler = "none" /\ step = "none"
  /\ handler' = "player"
  /\ UNCHANGED <<clickRest, step, token, returned, readError, overlay,
                 collections, requests, authPopup, path>>

\* handlePlayerClick: getName() is empty: showError, return.
Click_playerNoName ==
  /\ handler = "none" /\ step = "none"
  /\ handler' = "player"
  /\ path' = "noName"
  /\ step' = "finished"
  /\ UNCHANGED <<clickRest, token, returned, readError, overlay,
                 collections, requests, authPopup>>

\* const token = await this.storageService.getAuthToken()
Click_getAuthToken == handler # "none" /\ getAuthToken_get

\* if (!token) { this.showAuthPopup(); return }
Click_showAuthPopup ==
  /\ step = "returned" /\ handler # "none"
  /\ ~HasToken(returned)
  /\ authPopup' = TRUE
  /\ path' = "auth"
  /\ step' = "finished"
  /\ UNCHANGED <<clickRest, token, returned, readError, handler, overlay,
                 collections, requests>>

\* showLoadingOverlay; no parser for the URL: hideLoadingOverlay, showError.
Floating_noParser ==
  /\ step = "returned" /\ handler = "floating"
  /\ HasToken(returned)
  /\ \E u \in Urls : getParserForUrl(registerParsers, u) = null
  /\ overlay' = hideLoadingOverlay(showLoadingOverlay(overlay))
  /\ path' = "noParser"
  /\ step' = "finished"
  /\ UNCHANGED <<clickRest, token, returned, readError, handler,
                 collections, requests, authPopup>>

\* showLoadingOverlay; await parser.getAvailableNames(25)
Floating_collect ==
  /\ step = "returned" /\ handler = "floating"
  /\ HasToken(returned)
  /\ \E u \in Urls : getParserForUrl(registerParsers, u) # null
  /\ overlay' = showLoadingOverlay(overlay)
  /\ collections' = collections + 1
  /\ step' = "collecting"
  /\ UNCHANGED <<clickRest, token, returned, readError, handler, requests,
                 authPopup, path>>

\* One of the two collections throws: catch, hideLoadingOverlay, showError.
Floating_collectThrew ==
  /\ step = "collecting"
  /\ \E second \in BOOLEAN :
       collections' = IF second THEN collections + 1 ELSE collections
  /\ overlay' = hideLoadingOverlay(overlay)
  /\ path' = "exception"
  /\ step' = "finished"
  /\ UNCHANGED <<clickRest, token, returned, readError, handler, requests,
                 authPopup>>

\* await parser.getDraftedNames(); hideLoadingOverlay; no available names.
Floating_noNames ==
  /\ step = "collecting"
  /\ collections' = collections + 1
  /\ overlay' = hideLoadingOverlay(overlay)
  /\ path' = "noNames"
  /\ step' = "finished"
  /\ UNCHANGED <<clickRest, token, returned, readError, handler, requests,
                 authPopup>>

\* await parser.getDraftedNames(); hideLoadingOverlay; showLoadingOverlay;
\* await this.apiService.pickAssistant(apiRequest)
Floating_request ==
  /\ step = "collecting"
  /\ collections' = collections + 1
  /\ overlay' = showLoadingOverlay(hideLoadingOverlay(overlay))
  /\ requests' = requests + 1
  /\ step' = "requesting"
  /\ UNCHANGED <<clickRest, token, returned, readError, handler, authPopup,
                 path>>

\* The request is answered or throws: hideLoadingOverlay on each way.
Floating_responded ==
  /\ step = "requesting" /\ handler = "floating"
  /\ \E answer \in {"success", "failure", "exception"} : path' = answer
  /\ overlay' = hideLoadingOverlay(overlay)
  /\ step' = "finished"
  /\ UNCHANGED <<clickRest, token, returned, readError, handler,
                 collections, requests, authPopup>>

\* await this.apiService.getPlayerDataByName(playerName, 'standard')
Player_request ==
  /\ step = "returned" /\ handler = "player"
  /\ HasToken(returned)
  /\ requests' = requests + 1
  /\ step' = "requesting"
  /\ UNCHANGED <<clickRest, token, returned, readError, handler, overlay,
                 collections, authPopup, path>>

Player_responded ==
  /\ step = "requesting" /\ handler = "player"
  /\ \E answer \in {"success", "failure", "exception"} : path' = answer
  /\ step' = "finished"
  /\ UNCHANGED <<clickRest, token, returned, readError, handler, overlay,
                 collections, requests, authPopup>>

\* The handler has finished; the document keeps what it left there.
Click_finished ==
  /\ step = "finished"
  /\ step' = "none"
  /\ handler' = "none"
  /\ token' = null_
  /\ returned' = null_
  /\ readError' = FALSE
  /\ collections' = 0
  /\ requests' = 0
  /\ authPopup' = FALSE
  /\ path' = "none"
  /\ UNCHANGED <<clickRest, overlay>>

ClickNext ==
  \/ Click_floatingButton
  \/ Click_player
  \/ Click_playerNoName
  \/ Click_getAuthToken
  \/ getAuthToken_null
  \/ getAuthToken_expired
  \/ getAuthToken_clear
  \/ getAuthToken_valid
  \/ Click_showAuthPopup
  \/ Floating_noParser
  \/ Floating_collect
  \/ Floating_collectThrew
  \/ Floating_noNames
  \/ Floating_request
  \/ Floating_responded
  \/ Player_request
  \/ Player_responded
  \/ Click_finished
  \/ setAuthToken
  \/ Tick

SpecClick == IdleInit /\ [][ClickNext]_vars

(***************************************************************************)
(* The content script's API token                                          *)
(*                                                                         *)
(* The popup stores the auth token on login and removes it on logout.      *)
(* Each change of the key is delivered to the listener the content script  *)
(* registered, which runs initializeAuth().                                *)
(***************************************************************************)
syncRest == <<parserVars, clickVars, now, popupVars>>

\* The popup stored a token: chrome.storage.onChanged will fire.
Sync_login ==
  /\ \E t \in AuthTokens : ~IsExpired(t, now) /\ storage' = set("auth_token", t)
  /\ changes' = TRUE
  /\ UNCHANGED <<syncRest, step, token, returned, readError, authToken>>

\* The popup removed the token: chrome.storage.onChanged will fire.
Sync_logout ==
  /\ storage.auth_token # null_
  /\ storage' = remove("auth_token")
  /\ changes' = TRUE
  /\ UNCHANGED <<syncRest, step, token, returned, readError, authToken>>

\* if (namespace === 'local' && changes.auth_token) this.initializeAuth()
Listener_onChanged ==
  /\ changes /\ handler = "none" /\ step = "none"
  /\ handler' = "listener"
  /\ changes' = FALSE
  /\ UNCHANGED <<parserVars, popupVars, storageVars, overlay, collections, requests,
                 authPopup, path, authToken>>

Listener_getAuthToken == handler = "listener" /\ getAuthToken_get

\* if (token) this.apiService.setAuthToken(token)
initializeAuth_set ==
  /\ step = "returned" /\ handler = "listener"
  /\ returned # null_
  /\ authToken' = returned
  /\ handler' = "none"
  /\ step' = "none"
  /\ token' = null_
  /\ returned' = null_
  /\ readError' = FALSE
  /\ UNCHANGED <<parserVars, popupVars, now, storage, overlay, collections, requests,
                 authPopup, path, changes>>

\* No token: initializeAuth ends and leaves the ApiService as it is.
initializeAuth_skip ==
  /\ step = "returned" /\ handler = "listener"
  /\ returned = null_
  /\ handler' = "none"
  /\ step' = "none"
  /\ token' = null_
  /\ readError' = FALSE
  /\ UNCHANGED <<parserVars, popupVars, now, storage, returned, overlay, collections,
                 requests, authPopup, path, authToken, changes>>

SyncNext ==
  \/ Sync_login
  \/ Sync_logout
  \/ Listener_onChanged
  \/ Listener_getAuthToken
  \/ getAuthToken_null
  \/ getAuthToken_valid
  \/ initializeAuth_set
  \/ initializeAuth_skip

SpecSync == IdleInit /\ [][SyncNext]_vars

(***************************************************************************)
(* PopupManager                                                            *)
(*                                                                         *)
(* The popup is a context of its own: it has its ApiService, its           *)
(* currentUser and one visible screen, and it is gone with all of them     *)
(* when the user closes it, at whichever await its handler stands.         *)
(* ApiService.makeRequest catches what fetch throws and answers with       *)
(* success: false, as it does for an error status.                         *)
(***************************************************************************)
TokenLifetime == 1

Users == {"user"}

Answers == {"ok", "error", "unreachable"}

makeRequest(answer) == IF answer = "ok" THEN "success" ELSE "failure"

OnlyOnSuccess(response) == response = "success"
ContinuesAfter(response) == TRUE

popupRest == <<parserVars, now, overlay, collections, requests, authPopup,
               changes>>

\* new PopupManager(): initialize() calls checkAuthStatus().
Popup_open ==
  /\ screen = "none" /\ handler = "none" /\ step = "none"
  /\ handler' = "checkAuthStatus"
  /\ screen' = "loading"
  /\ UNCHANGED <<popupRest, storage, step, token, returned, readError, path,
                 authToken, currentUser>>

Popup_getAuthToken == handler = "checkAuthStatus" /\ getAuthToken_get

\* No token: showLogin().
checkAuthStatus_noToken ==
  /\ handler = "checkAuthStatus" /\ step = "returned"
  /\ returned = null_
  /\ screen' = "login"
  /\ step' = "finished"
  /\ UNCHANGED <<popupRest, storage, token, returned, readError, handler,
                 path, authToken, currentUser>>

\* this.apiService.setAuthToken(token); the stored user is there:
\* showDashboard().
checkAuthStatus_user ==
  /\ handler = "checkAuthStatus" /\ step = "returned"
  /\ returned # null_
  /\ \E throws \in BOOLEAN :
       /\ get("user_data", throws) # null_
       /\ currentUser' = get("user_data", throws)
  /\ authToken' = returned
  /\ screen' = "dashboard"
  /\ step' = "finished"
  /\ UNCHANGED <<popupRest, storage, token, returned, readError, handler,
                 path>>

\* this.apiService.setAuthToken(token); no stored user:
\* await this.apiService.getCurrentUser()
checkAuthStatus_validate ==
  /\ handler = "checkAuthStatus" /\ step = "returned"
  /\ returned # null_
  /\ \E throws \in BOOLEAN : get("user_data", throws) = null_
  /\ authToken' = returned
  /\ step' = "validating"
  /\ UNCHANGED <<popupRest, storage, token, returned, readError, handler,
                 path, currentUser, screen>>

\* response.success && response.data: the user is kept and stored.
checkAuthStatus_valid ==
  /\ handler = "checkAuthStatus" /\ step = "validating"
  /\ \E answer \in Answers :
       /\ makeRequest(answer) = "success"
       /\ path' = answer
  /\ \E u \in Users :
       /\ currentUser' = {u}
       /\ storage' = set("user_data", u)
  /\ screen' = "dashboard"
  /\ step' = "finished"
  /\ UNCHANGED <<popupRest, token, returned, readError, handler, authToken>>

\* else: await this.storageService.clearAuthToken(); this.showLogin()
checkAuthStatus_invalid ==
  /\ handler = "checkAuthStatus" /\ step = "validating"
  /\ \E answer \in Answers :
       /\ makeRequest(answer) = "failure"
       /\ path' = answer
  /\ storage' = remove("auth_token")
  /\ screen' = "login"
  /\ step' = "finished"
  /\ UNCHANGED <<popupRest, token, returned, readError, handler, authToken,
                 currentUser>>

\* handleLogin, response.success: await this.storageService.setAuthToken(token)
handleLogin_setAuthToken ==
  /\ screen = "login" /\ handler = "none" /\ step = "none"
  /\ \E t \in AuthTokens :
       /\ t.expiresAt = now + TokenLifetime
       /\ storage' = set("auth_token", t)
       /\ token' = {t}
  /\ handler' = "login"
  /\ step' = "storingUser"
  /\ screen' = "loading"
  /\ UNCHANGED <<popupRest, returned, readError, path, authToken,
                 currentUser>>

\* await this.storageService.setUserData(user); setAuthToken(token);
\* this.currentUser = user; showDashboard()
handleLogin_setUserData ==
  /\ handler = "login" /\ step = "storingUser"
  /\ \E u \in Users :
       /\ storage' = set("user_data", u)
       /\ currentUser' = {u}
  /\ authToken' = token
  /\ screen' = "dashboard"
  /\ step' = "finished"
  /\ UNCHANGED <<popupRest, token, returned, readError, handler, path>>

\* handleLogout: await this.apiService.logout(), in a try with an empty catch.
handleLogout_request ==
  /\ screen = "dashboard" /\ handler = "none" /\ step = "none"
  /\ handler' = "logout"
  /\ step' = "requesting"
  /\ UNCHANGED <<popupRest, storage, token, returned, readError, path,
                 authToken, currentUser, screen>>

\* The request is over, however it went.
handleLogout_answered ==
  /\ handler = "logout" /\ step = "requesting"
  /\ \E answer \in Answers :
       /\ path' = answer
       /\ step' = IF ContinuesAfter(makeRequest(answer)) THEN "clearToken"
                  ELSE "finished"
  /\ UNCHANGED <<popupRest, storage, token, returned, readError, handler,
                 authToken, currentUser, screen>>

\* await this.storageService.clearAuthToken()
handleLogout_clearAuthToken ==
  /\ handler = "logout" /\ step = "clearToken"
  /\ storage' = remove("auth_token")
  /\ step' = "clearUser"
  /\ UNCHANGED <<popupRest, token, returned, readError, handler, path,
                 authToken, currentUser, screen>>

\* await this.storageService.clearUserData(); this.apiService.clearAuthToken();
\* this.currentUser = null; this.showLogin()
handleLogout_clearUserData ==
  /\ handler = "logout" /\ step = "clearUser"
  /\ storage' = remove("user_data")
  /\ authToken' = null_
  /\ currentUser' = null_
  /\ screen' = "login"
  /\ step' = "finished"
  /\ UNCHANGED <<popupRest, token, returned, readError, handler, path>>

\* The handler has finished.
Popup_finished ==
  /\ step = "finished"
  /\ step' = "none"
  /\ handler' = "none"
  /\ token' = null_
  /\ returned' = null_
  /\ readError' = FALSE
  /\ path' = "none"
  /\ UNCHANGED <<popupRest, storage, authToken, currentUser, screen>>

\* The user closes the popup: its context is gone, storage stays.
Popup_close ==
  /\ screen # "none"
  /\ screen' = "none"
  /\ handler' = "none"
  /\ step' = "none"
  /\ token' = null_
  /\ returned' = null_
  /\ readError' = FALSE
  /\ path' = "none"
  /\ authToken' = null_
  /\ currentUser' = null_
  /\ UNCHANGED <<popupRest, storage>>

PopupNext ==
  \/ Popup_open
  \/ Popup_getAuthToken
  \/ getAuthToken_null
  \/ getAuthToken_expired
  \/ getAuthToken_clear
  \/ getAuthToken_valid
  \/ checkAuthStatus_noToken
  \/ checkAuthStatus_user
  \/ checkAuthStatus_validate
  \/ checkAuthStatus_valid
  \/ checkAuthStatus_invalid
  \/ handleLogin_setAuthToken
  \/ handleLogin_setUserData
  \/ handleLogout_request
  \/ handleLogout_answered
  \/ handleLogout_clearAuthToken
  \/ handleLogout_clearUserData
  \/ Popup_finished
  \/ Popup_close
  \/ Tick

SpecPopup == IdleInit /\ [][PopupNext]_vars

(***************************************************************************)
(* The MutationObserver of the content script                              *)
(*                                                                         *)
(* The observer watches document.body for child-list and attribute         *)
(* changes in the whole subtree; its callback runs addButtonsToAllRows(),  *)
(* whose own insertions are changes of the child list and are delivered to *)
(* the same callback.  The host page renders a row and then lets the       *)
(* document be.                                                            *)
(***************************************************************************)
MaxCallbacks == 3

\* window.location.href on the draft page of the site.
LocationOf(s) ==
  CASE s = "ESPN" -> <<"https://", "fantasy.espn.com/football/draft">>
    [] s = "Yahoo" ->
         <<"https://football.fantasysports.yahoo.com/draftclient/">>
    [] s = "Sleeper" -> <<"https://sleeper.com/draft">>

addActionButton(parser, t, r) ==
  CASE parser = "ESPN" -> ESPN_addActionButton(t, r)
    [] parser = "Sleeper" -> Sleeper_addActionButton(t, r)
    [] parser = "Yahoo" -> Yahoo_addActionButton(t, r)

\* The document after addButtonsToAllRows() over the row at r.
addButtonsToAllRows(s, t, r) ==
  LET parser == getParserForUrl(registerParsers, LocationOf(s))
  IN IF parser = null THEN t
     ELSE IF trim(getName(parser, t, r)) = <<>> THEN t
     ELSE addActionButton(parser, t, r)

\* The host page renders a row; the change is queued for the observer.
Host_renderRow ==
  /\ pc = "idle"
  /\ \E f \in Fixtures(site) :
       /\ page' = PageOf(site, f)
       /\ root' = RootOf(f)
       /\ nameBefore' = getName(site, PageOf(site, f), RootOf(f))
  /\ adds' = 0
  /\ pending' = TRUE
  /\ pc' = "row"
  /\ UNCHANGED rowRest

\* new MutationObserver(() => { this.addButtonsToAllRows() })
Observer_callback ==
  /\ pc = "row" /\ pending
  /\ adds < MaxCallbacks
  /\ page' = addButtonsToAllRows(site, page, root)
  /\ pending' = (addButtonsToAllRows(site, page, root) # page)
  /\ adds' = adds + 1
  /\ UNCHANGED <<pc, root, nameBefore, rowRest>>

\* The host page drops the row.
Host_dropRow ==
  /\ pc = "row"
  /\ pc' = "idle"
  /\ page' = EmptyPage
  /\ root' = <<>>
  /\ nameBefore' = <<>>
  /\ adds' = 0
  /\ pending' = FALSE
  /\ UNCHANGED rowRest

ObserverNext ==
  \/ Host_renderRow
  \/ Observer_callback
  \/ Host_dropRow

SpecObserver == IdleInit /\ [][ObserverNext]_vars

(***************************************************************************)
(* Claims about getAvailableNames, checked under SpecAvail.                *)
(***************************************************************************)
NoRepeats(s) == \A i, j \in 1..Len(s) : s[i] = s[j] => i = j

IsPrefix(s, t) == Len(s) <= Len(t) /\ s = SubSeq(t, 1, Len(s))

Returned == pc = "done"

\* C1: the sequence a call of getAvailableNames(requiredCount) returns has at
\* most requiredCount elements, for every parser and every page, the Yahoo
\* table that is present but not scrollable included.
C1_AtMostRequiredCount == Returned => Len(result) <= requiredCount

\* C2: the returned sequence holds no name twice and lists the names in the
\* order in which the call first read them, also when two rendered rows carry
\* the same name and when the Yahoo table is not scrollable.
C2_UniqueInFirstSeenOrder ==
  Returned => NoRepeats(result) /\ IsPrefix(result, firstSeen)

\* C3: a call makes at most 100 reads and dispatches at most 100 scroll-down
\* steps whatever the page renders, is never stuck before its return, and
\* returns names it collected: all of them when fewer than requiredCount
\* were ever rendered.
C3_BoundedCollection ==
  /\ reads <= 100
  /\ scrolls <= 100
  /\ (pc \notin {"idle", "done"} => ENABLED AvailStep)
  /\ (Returned => Range(result) \subseteq Range(firstSeen))
  /\ (Returned /\ Len(firstSeen) < requiredCount
        => Range(result) = Range(firstSeen))

\* The ceiling is reached: 100 reads, each followed by a dispatched scroll
\* step, and the call returns fewer names than were asked for.
C3_Witness ==
  /\ Returned /\ reads = 100 /\ scrolls = 100
  /\ result # <<>> /\ Len(result) < requiredCount

\* C4: with U the distinct non-empty names rendered over the reads of one
\* call getAvailableNames(k): if |U| >= k the call returns exactly k names,
\* and if |U| < k it returns exactly the names of U, each once in first-seen
\* order, on scrollable and on static pages alike.
C4_ExactlyTheAvailableNames ==
  Returned /\ branch # "absent" =>
    IF Len(firstSeen) >= requiredCount
    THEN Len(result) = requiredCount
    ELSE result = firstSeen

(***************************************************************************)
(* Claims about getDraftedNames, checked under SpecDrafted.                *)
(***************************************************************************)
\* C5: on a scrollable panel the loop of getDraftedNames ends at the first
\* check at which the offset read equals the offset read by the check
\* before, or at which offset + client height >= content height, and at no
\* other check: once the offset stops changing the very next check ends the
\* loop, far from the ceiling of 100 attempts.
C5_EndsAtStallOrBottom ==
  [][pc = "draftScroll" /\ pc' # "draftScroll" =>
       ((lastTop' = lastTop \/ lastBottom') <=> pc' = "draftReset")]_vars

\* The second pass reads the offset of the first, away from the bottom, and
\* the loop is over.
C5_Witness ==
  /\ pc = "draftReset" /\ reads = 2 /\ attempts = 1
  /\ lastTop = previousScrollTop /\ ~lastBottom

\* C6: every call of getDraftedNames comes to its return: on a scrollable
\* panel it makes at most 100 passes even when offset and content height
\* keep changing so that neither stall nor bottom is ever seen, is never
\* stuck, and once it has returned it has scrolled the panel to the top
\* again and hands back the entries it collected.
C6_DraftedTerminates ==
  /\ reads <= 100
  /\ attempts <= 100
  /\ (pc \notin {"idle", "done"} => ENABLED DraftedStep)
  /\ (Returned /\ branch = "loop" =>
        /\ topResets = 2
        /\ DraftedNamesOf(site, result) = firstSeen)

\* The ceiling is reached: 100 passes, none of which saw stall or bottom.
C6_Witness ==
  /\ Returned /\ branch = "loop" /\ reads = 100 /\ attempts = 100
  /\ ~lastBottom /\ Len(result) = 2

(***************************************************************************)
(* Claims about getPlayerRows, checked under SpecRows.                     *)
(***************************************************************************)
Listed == pc = "listed"

\* C7: getPlayerRows() never returns two rows with the same root element:
\* a row that several name elements resolve to appears once.
C7_OneRowPerRoot == Listed => NoRepeats(playerRows)

\* C8: the rows getPlayerRows() returns are in ascending order of top,
\* whatever their order in the document, and rows of equal top keep the
\* order in which the document listed them.
C8_AscendingAndStable ==
  Listed /\ doc.present =>
    /\ \A i \in 1..(Len(playerRows) - 1) :
         doc.top[playerRows[i]] <= doc.top[playerRows[i + 1]]
    /\ \A t \in Tops :
         LET AtTop(r) == doc.top[r] = t
         IN SelectSeq(playerRows, AtTop)
              = SelectSeq(RowElements(site, doc), AtTop)

\* Three rows listed in an order that is not their on-screen order, two of
\* them at the same top.
C8_Witness ==
  /\ Listed /\ Len(playerRows) = 3
  /\ playerRows # RowElements(site, doc)
  /\ \E i \in 1..2 : /\ playerRows[i] # playerRows[i + 1]
                      /\ doc.top[playerRows[i]] = doc.top[playerRows[i + 1]]

(***************************************************************************)
(* Claims about PlayerRow.getName() and addActionButton()                  *)
(***************************************************************************)
HasRow == pc = "row"
NameElementPath == querySelector(site, page, root, PLAYER_NAME_SELECTOR)

\* No name selector matches in the row, or the match yields no text.
NoUsableName ==
  \/ NameElementPath = NoPath
  \/ NameText(site, RemoveButtons(NodeAt(page, NameElementPath))) = <<>>

\* C9: getName() returns for a row the same string after the control was
\* injected as it returned before, wherever addActionButton put the control
\* (inside the name element, in its flex container, or as its sibling).
C9_NameUnaffectedByControl ==
  HasRow => getName(site, page, root) = nameBefore

\* A row whose name element holds the injected control and still reads as the
\* non-empty name it had before.
C9_Witness ==
  /\ HasRow
  /\ adds >= 1
  /\ nameBefore # <<>>
  /\ NameElementPath # NoPath
  /\ HasButton(site, page, NameElementPath)
  /\ getName(site, page, root) = nameBefore

\* C10 as stated: when no name selector matches, or the match yields no text,
\* getName() returns the trimmed text of the whole row.
C10_FallsBackToRowText ==
  HasRow /\ NoUsableName => getName(site, page, root) = RowText(page, root)

\* C10 as the code has it: when no name selector matches, or the match yields
\* no text, getName() returns the empty string, whatever other text the row
\* holds.
C10_EmptyWithoutName ==
  HasRow /\ NoUsableName => getName(site, page, root) = <<>>

\* A row with text in it, none of it under a name selector, read as empty.
C10_Witness ==
  /\ HasRow
  /\ NameElementPath = NoPath
  /\ RowText(page, root) # <<>>
  /\ getName(site, page, root) = <<>>

\* The controls in the document that belong to the row: every control that
\* does not lie inside another row.
OwnControls ==
  LET ds == Descendants(page)
  IN {i \in 1..Len(ds) : /\ IsButton(NodeAt(page, ds[i]))
                          /\ closest(page, ds[i], "row") \in {NoPath, root}}

\* C11: after any number of addActionButton calls on a row at most one
\* action control exists for that row in the document, also when the flex
\* container of the name element lies outside the row's root or already
\* holds the control of another row.
C11_AtMostOneControl == HasRow => Cardinality(OwnControls) <= 1

(***************************************************************************)
(* Claims about ParserManager, checked under SpecManager.                  *)
(***************************************************************************)
Accepting(u) == {i \in 1..Len(parsers) : canParse(parsers[i], u)}

C13_DelegatesToTheMatch ==
  pc = "delegated" =>
    IF Accepting(url) = {} THEN playerRows = <<>> /\ invoked = {}
    ELSE /\ invoked = {matched}
         /\ playerRows = getPlayerRows(matched, doc)

\* No parser matches a URL while the document holds rows, and nothing is
\* returned.
C13_Witness ==
  /\ pc = "delegated" /\ Accepting(url) = {} /\ url # <<>>
  /\ getPlayerRows("ESPN", doc) # <<>> /\ playerRows = <<>>

\* C14: for a draft URL accepted by the canParse of ESPNParser, YahooParser
\* or SleeperParser, getParserForUrl returns a parser of such a site, not
\* null.
C14_EverySiteRegistered ==
  pc = "resolved" =>
    \A s \in Sites :
      canParse(s, url) => matched # null /\ canParse(matched, url)

C16_NormalizeCollectReset ==
  /\ (pc # "idle" /\ reads >= 1 => normalized /\ topResets >= 1)
  /\ (Returned /\ reads >= 1 => normalized /\ topResets = 2)

\* C17: within getAvailableNames no scroll-down step is dispatched once the
\* accumulator holds requiredCount names; getAvailableNames(0) makes no
\* read and no scroll-down step, and a call whose first read yields
\* requiredCount names makes no scroll-down step.
C17_NoScrollOnceEnough ==
  /\ (pc = "scrollDown" => Len(playerNames) < requiredCount)
  /\ (pc # "idle" /\ requiredCount = 0 => reads = 0 /\ scrolls = 0)
  /\ (pc # "idle" /\ reads = 1 /\ Len(playerNames) >= requiredCount
        => scrolls = 0)

C19_DraftedListKey ==
  pc = "handled" /\ apiRequest # NoRequest =>
    /\ ("players_drafted_abbreviations" \in DOMAIN apiRequest)
          = (site = "Yahoo")
    /\ ("players_drafted" \in DOMAIN apiRequest) = (site # "Yahoo")
    /\ usesDraftAbbreviations(site) = (site = "Yahoo")
    /\ IF site = "Yahoo"
       THEN /\ apiRequest.players_drafted_abbreviations = result
            /\ \A i \in 1..Len(result) :
                 DOMAIN result[i] = {"name", "position", "team"}
       ELSE /\ apiRequest.players_drafted = result
            /\ \A i \in 1..Len(result) : result[i] \in Names

\* A Yahoo request carrying a drafted record under the abbreviations key.
C19_Witness ==
  /\ pc = "handled" /\ site = "Yahoo"
  /\ "players_drafted_abbreviations" \in DOMAIN apiRequest
  /\ Len(result) >= 1
  /\ apiRequest.players_drafted_abbreviations = result

\* C20: inside the collection loops every read of the scroll offset and of
\* the heights that follows a suspend point is made on the element the live
\* document holds after it, never on one obtained before the wait: the
\* element the loop check of getDraftedNames consults is the roster panel
\* the document holds at that moment.
C20_ReadsTheLiveElement ==
  [][pc = "draftScroll" /\ pc' # "draftScroll" => consulted' = rosterSection]_vars

C26_OverlayRemoved == step \in {"finished", "none"} => overlay = 0

C26_Witness ==
  /\ step = "finished" /\ handler = "floating"
  /\ path = "exception" /\ requests = 1
  /\ overlay = 0

\* C27: once the storage-change listener has run for every change of the
\* auth token, the ApiService of the content script holds a token only if
\* storage holds one; after the token was removed from storage the
\* ApiService token is cleared.
C27_TokenFollowsStorage ==
  ~changes /\ handler = "none" =>
    (authToken # null_ => storage.auth_token # null_)

C30_UnreachableKeepsToken ==
  handler = "checkAuthStatus" /\ step = "finished" =>
    /\ (path = "unreachable" =>
          screen = "error" /\ storage.auth_token # null_)
    /\ (path = "error" =>
          screen = "login" /\ storage.auth_token = null_)

\* C24: for every URL at most one of the three canParse predicates is true,
\* so the parser a lookup finds does not depend on the order of registration.
C24_AtMostOneParserAccepts ==
  pc = "resolved" => Cardinality({s \in Sites : canParse(s, url)}) <= 1

\* C22: the list getDraftedNames returns holds each drafted player at most
\* once, whether the roster panel is scrollable or not: no name is repeated
\* (ESPN, Sleeper) and no two records carry the same name (Yahoo).
C22_EachDraftedPlayerOnce ==
  Returned => NoRepeats(DraftedNamesOf(site, result))

\* C23: in the scrollable branch of getDraftedNames every entry the panel
\* renders at an offset the loop reaches is in the returned list, those
\* rendered only at the offset where the bottom or the stall is detected
\* included.
C23_FinalOffsetIsRead ==
  Returned /\ branch = "loop" =>
    \A i \in 1..Len(atFinal) : Includes(DraftedNamesOf(site, result), atFinal[i])

\* C25: with no further change by the host page the observer's callbacks
\* come to rest, and once no change is left to deliver every row with a
\* non-empty name has exactly one action control.
C25_QuiescesWithOneControl ==
  HasRow /\ ~pending /\ trim(getName(site, page, root)) # <<>> =>
    Cardinality(OwnControls) = 1

=============================================================================
